---- MODULE Spec2Model ----
(***************************************************************************)
(* The job record store (class JobTracker) and the durable file it keeps.  *)
(* Calls run on one event loop: a call runs without interruption from one  *)
(* file-system await to the next, and the completions of the file-system   *)
(* requests of different calls arrive in any order.                        *)
(***************************************************************************)
EXTENDS Integers, Sequences, FiniteSets, TLC

\* Bounds of the model.
MaxMutations == 2
MaxIndexArg == 1

\* The concurrent callers (request handlers) of the store.
Procs == {1, 2}

Min(S) == CHOOSE x \in S : \A y \in S : x <= y
Max(S) == CHOOSE x \in S : \A y \in S : x >= y

(***************************************************************************)
(* Strings are tuples of one-character strings.                            *)
(***************************************************************************)
LowerChar(c) ==
  CASE c = "A" -> "a"
    [] c = "B" -> "b"
    [] c = "T" -> "t"
    [] c = "X" -> "x"
    [] OTHER -> c

toLowerCase(s) == [i \in 1..Len(s) |-> LowerChar(s[i])]

trim(s) ==
  LET keep == {i \in 1..Len(s) : s[i] # " "}
  IN  IF keep = {} THEN <<>> ELSE SubSeq(s, Min(keep), Max(keep))

\* JavaScript truthiness of a string: every string but the empty one.
Truthy(s) == Len(s) > 0

(***************************************************************************)
(* Values returned to callers.                                             *)
(***************************************************************************)
RNum(n) == [kind |-> "number", num |-> n, bool |-> FALSE]
RNull == [kind |-> "null", num |-> 0, bool |-> FALSE]
RBool(b) == [kind |-> "boolean", num |-> 0, bool |-> b]
RVoid == [kind |-> "void", num |-> 0, bool |-> FALSE]
RThrow == [kind |-> "throw", num |-> 0, bool |-> FALSE]

(***************************************************************************)
(* Arrays are indexed from 0 as in the source.                             *)
(***************************************************************************)
At(arr, i) == arr[i + 1]

InRange(arr, i) == i >= 0 /\ i < Len(arr)

\* findIndex, given the positions of the elements that satisfy the predicate.
findIndex(hits) == IF hits = {} THEN -1 ELSE Min(hits) - 1

\* A comparison of URLs as they are written.
UrlEqualsVerbatim(job, jobUrl) ==
  /\ "jobUrl" \in DOMAIN job
  /\ job.jobUrl = jobUrl

\* job.jobUrl?.toLowerCase().trim() === jobUrl.toLowerCase().trim()
UrlEquals(job, jobUrl) ==
  /\ "jobUrl" \in DOMAIN job
  /\ trim(toLowerCase(job.jobUrl)) = trim(toLowerCase(jobUrl))

TitleEquals(job, company, jobTitle) ==
  /\ toLowerCase(job.company) = toLowerCase(company)
  /\ toLowerCase(job.jobTitle) = toLowerCase(jobTitle)

\* A check that looks for a company and jobTitle match before a URL match.
checkDuplicateTitleFirst(jobList, company, jobTitle, jobUrl) ==
  LET urlIndex == findIndex({i \in 1..Len(jobList) : UrlEquals(jobList[i], jobUrl)})
      titleIndex == findIndex({i \in 1..Len(jobList) :
                                TitleEquals(jobList[i], company, jobTitle)})
  IN  IF titleIndex # -1 THEN RNum(titleIndex)
      ELSE IF Truthy(jobUrl) /\ urlIndex # -1 THEN RNum(urlIndex)
      ELSE RNull

\* if (jobUrl) { urlIndex = findIndex(...); if (urlIndex !== -1) return urlIndex }
\* titleIndex = findIndex(...); return titleIndex !== -1 ? titleIndex : null
checkDuplicate(jobList, company, jobTitle, jobUrl) ==
  LET urlIndex == findIndex({i \in 1..Len(jobList) : UrlEquals(jobList[i], jobUrl)})
      titleIndex == findIndex({i \in 1..Len(jobList) :
                                TitleEquals(jobList[i], company, jobTitle)})
  IN  IF Truthy(jobUrl) /\ urlIndex # -1 THEN RNum(urlIndex)
      ELSE IF titleIndex # -1 THEN RNum(titleIndex)
      ELSE RNull

(***************************************************************************)
(* The durable file.  A document is the file's state: absent, unreadable,  *)
(* text that is not JSON, or the JSON value the text denotes (a scalar, an *)
(* array of job objects, an object whose members are job objects).         *)
(***************************************************************************)
Doc(k, its, mems) == [kind |-> k, items |-> its, members |-> mems]

Missing == Doc("missing", <<>>, <<>>)
Unreadable == Doc("unreadable", <<>>, <<>>)
Garbage == Doc("garbage", <<>>, <<>>)
Scalar == Doc("scalar", <<>>, <<>>)
ArrayDoc(its) == Doc("array", its, <<>>)
ObjectDoc(mems) == Doc("object", <<>>, mems)

\* The value of a property that is present and undefined, as the
\* additionalInfo of a job posted without one is.
Undefined == <<"undefined">>

\* A serialisation that leaves out the jobUrl of a job that has an empty one.
StringifyJobDroppingEmpty(job) ==
  [f \in {g \in DOMAIN job : ~(g = "additionalInfo" /\ job[g] = Undefined)
                              /\ ~(g = "jobUrl" /\ job[g] = <<>>)} |-> job[f]]

\* JSON.stringify of a job object: a property whose value is undefined is
\* left out.
StringifyJob(job) ==
  [f \in {g \in DOMAIN job : ~(g = "additionalInfo" /\ job[g] = Undefined)} |-> job[f]]

\* JSON.stringify(jobList, null, 2)
JsonStringify(jobList) == ArrayDoc([i \in 1..Len(jobList) |-> StringifyJob(jobList[i])])

\* fs.readFile followed by JSON.parse: the error code raised, or the value.
ReadAndParse(f) ==
  CASE f.kind = "missing" -> [err |-> "ENOENT", value |-> f]
    [] f.kind = "unreadable" -> [err |-> "EACCES", value |-> f]
    [] f.kind = "garbage" -> [err |-> "SyntaxError", value |-> f]
    [] OTHER -> [err |-> "none", value |-> f]

\* The values of the members in the order of the text.
ObjectValuesInTextOrder(mems) == [r \in 1..Len(mems) |-> mems[r].value]

\* Object.values: integer keys in ascending order, then the other keys in the
\* order of the text.
ObjectValues(mems) ==
  LET idx == {i \in 1..Len(mems) : mems[i].isIndex}
      str == {i \in 1..Len(mems) : ~mems[i].isIndex}
      rank(i) == IF i \in idx
                 THEN Cardinality({j \in idx : mems[j].key < mems[i].key}) + 1
                 ELSE Cardinality(idx) + Cardinality({j \in str : j < i}) + 1
  IN  [r \in 1..Len(mems) |-> mems[CHOOSE i \in 1..Len(mems) : rank(i) = r].value]

\* A catch block that passes on the errors it logs.
loadDataCatchRethrowing(code) == [throws |-> code # "ENOENT", logs |-> code # "ENOENT"]

\* The catch block of loadData: ENOENT is silent, any other error is logged;
\* both return the empty list.
loadDataCatch(code) == [throws |-> FALSE, logs |-> code # "ENOENT"]

\* The try block of loadData up to its first return or to the migration.
loadDataTry(f) ==
  LET r == ReadAndParse(f)
  IN  CASE r.err # "none" -> [outcome |-> "error", jobList |-> <<>>, code |-> r.err]
        [] r.value.kind = "array" -> [outcome |-> "return", jobList |-> r.value.items, code |-> "none"]
        [] r.value.kind = "object" -> [outcome |-> "migrate", jobList |-> ObjectValues(r.value.members), code |-> "none"]
        [] OTHER -> [outcome |-> "return", jobList |-> <<>>, code |-> "none"]

(***************************************************************************)
(* Inputs.                                                                 *)
(***************************************************************************)
Statuses == {"found", "reviewed", "applied"}

FJob0 == [company |-> <<"A">>, jobTitle |-> <<"T">>, jobUrl |-> <<>>,
          status |-> "applied", lastUpdated |-> 0,
          notes |-> <<[timestamp |-> 0, note |-> <<"n">>]>>]
FJob1 == [company |-> <<"b">>, jobTitle |-> <<"t">>, jobUrl |-> <<" ", "X", " ">>,
          status |-> "reviewed", lastUpdated |-> 0]
FJob2 == [company |-> <<"A">>, jobTitle |-> <<"T">>, jobUrl |-> <<"x">>,
          status |-> "found", lastUpdated |-> 0]
FJob3 == [company |-> <<"a">>, jobTitle |-> <<"t">>, jobUrl |-> <<"X", " ">>,
          status |-> "reviewed", lastUpdated |-> 0]

\* The files a run of concurrent callers starts from, and those a run of
\* one call at a time starts from.
InitFiles == { Missing, Unreadable, Garbage, ArrayDoc(<<FJob0>>) }

InitFilesSeq ==
  { Missing, Unreadable, Garbage, Scalar,
    ArrayDoc(<<FJob0, FJob1>>),
    ArrayDoc(<<FJob2, FJob3>>),
    ObjectDoc(<<[isIndex |-> TRUE, key |-> 1, value |-> FJob0],
                [isIndex |-> TRUE, key |-> 0, value |-> FJob1]>>) }

\* additionalInfo is the list of the keys it holds.
\* The name of a property every object inherits, as a company name.
ValueOf == <<"v", "a", "l", "u", "e", "O", "f">>

FJob4 == [company |-> <<"A">>, jobTitle |-> <<"T", "b">>, jobUrl |-> <<>>,
          status |-> "found", lastUpdated |-> 0, jobBoard |-> "remoteok"]
FJob5 == [company |-> ValueOf, jobTitle |-> <<"t">>, jobUrl |-> <<>>,
          status |-> "applied", lastUpdated |-> 0, jobBoard |-> "remoteok"]

\* A record as the search route stores it, with its additionalInfo.
FJob6 == [company |-> <<"c">>, jobTitle |-> <<"t">>, jobUrl |-> <<"y">>,
          status |-> "found", lastUpdated |-> 0, jobBoard |-> "remoteok",
          additionalInfo |-> <<"k">>]

\* What another program writes to the data file: a record the store never
\* created, or text that is not JSON.
FJob7 == [company |-> <<"z">>, jobTitle |-> <<"t">>, jobUrl |-> <<>>,
          status |-> "found", lastUpdated |-> 0]

ForeignFiles == {ArrayDoc(<<FJob7>>), Garbage}

\* The files a run of calls and queries starts from.
InitFilesQuery ==
  { Missing,
    ArrayDoc(<<FJob2, FJob4, FJob0>>),
    ArrayDoc(<<FJob4, FJob5>>) }

\* The arguments of getJobsByCompany and of searchJobs.
CompanyQueries == {<<"a">>, <<"b">>}

SearchQueries == {<<"t">>, <<"b">>}

Cand(c, t, u, a) == [company |-> c, jobTitle |-> t, jobUrl |-> u, additionalInfo |-> a]

Candidates ==
  { Cand(<<"a">>, <<"t">>, <<>>, Undefined),
    Cand(<<"a">>, <<"t">>, <<"x">>, <<"k">>),
    Cand(<<"a", "b">>, <<"t">>, <<" ", "X", " ">>, <<"k">>),
    Cand(<<"b">>, <<"t">>, <<" ">>, Undefined) }

NoCand == Cand(<<>>, <<>>, <<>>, <<>>)

IndexArgs == -1..MaxIndexArg

NoteTexts == {<<"n">>}

\* What a caller that makes its call on receiving the result of an addJob
\* knows of that addJob: its candidate and the index it returned.
NoPrev == [cand |-> NoCand, num |-> -1]

OpRec(k, c, i, s, hn, n) ==
  [kind |-> k, cand |-> c, idx |-> i, status |-> s, hasNote |-> hn, note |-> n,
   prev |-> NoPrev]

NoOp == OpRec("none", NoCand, 0, "found", FALSE, <<>>)

NoLoc == [jobList |-> 0, content |-> Missing,
          inLoad |-> FALSE, appended |-> FALSE, index |-> 0]

(***************************************************************************)
(* State.                                                                  *)
(***************************************************************************)
VARIABLES
  file,         \* the durable file
  arrays,       \* the array objects created so far, by identity
  jobs,         \* this.jobs: the identity of the array it refers to
  initialized,  \* this.initialized
  pc,           \* where each caller's call is suspended
  op,           \* the call each caller has in flight
  loc,          \* the locals of that call
  lastRet,      \* the call that returned in the last step, and its result
  now,          \* the clock read by new Date()
  logged,       \* the log.error entries written in the last step
  resolved      \* the calls that changed the collection and were seen to succeed

vars == <<file, arrays, jobs, initialized, pc, op, loc, lastRet, now, logged, resolved>>

NoRet == [op |-> NoOp, val |-> RVoid, appended |-> FALSE]

InitWith(files) ==
  /\ file \in files
  /\ arrays = << <<>> >>
  /\ jobs = 1
  /\ initialized = FALSE
  /\ pc = [p \in Procs |-> "idle"]
  /\ op = [p \in Procs |-> NoOp]
  /\ loc = [p \in Procs |-> NoLoc]
  /\ lastRet = NoRet
  /\ now = 1
  /\ logged = {}
  /\ resolved = 0

Init == InitWith(InitFiles)

InitSeq == InitWith(InitFilesSeq)

(***************************************************************************)
(* The bodies of the mutating operations, on one job object.               *)
(***************************************************************************)
\* A new record that is not stamped with the time of the call.
newJobUnstamped(jobData, t) ==
  [f \in DOMAIN jobData \cup {"status", "lastUpdated"} |->
     CASE f = "status" -> "found"
       [] f = "lastUpdated" -> 0
       [] OTHER -> jobData[f]]

\* { ...jobData, status: JobStatus.FOUND, lastUpdated: new Date().toISOString() }
newJob(jobData, t) ==
  [f \in DOMAIN jobData \cup {"status", "lastUpdated"} |->
     CASE f = "status" -> "found"
       [] f = "lastUpdated" -> t
       [] OTHER -> jobData[f]]

\* A status update that stores the note it was given in the record's notes.
setStatusStoringNote(job, status, note, t) ==
  [f \in DOMAIN job \cup {"notes"} |->
     CASE f = "notes" -> Append(IF "notes" \in DOMAIN job THEN job.notes ELSE <<>>,
                                [timestamp |-> t, note |-> note])
       [] f = "status" -> status
       [] f = "lastUpdated" -> t
       [] OTHER -> job[f]]

\* this.jobs[jobIndex].status = status; this.jobs[jobIndex].lastUpdated = now
setStatus(job, status, note, t) == [job EXCEPT !.status = status, !.lastUpdated = t]

\* A note that replaces the notes of the record.
pushNoteReplacing(job, note, t) ==
  [f \in DOMAIN job \cup {"notes"} |->
     CASE f = "notes" -> <<[timestamp |-> t, note |-> note]>>
       [] f = "lastUpdated" -> t
       [] OTHER -> job[f]]

\* if (!job.notes) job.notes = []; job.notes.push(noteEntry); job.lastUpdated = now
pushNote(job, note, t) ==
  LET old == IF "notes" \in DOMAIN job THEN job.notes ELSE <<>>
  IN  [f \in DOMAIN job \cup {"notes"} |->
         CASE f = "notes" -> Append(old, [timestamp |-> t, note |-> note])
           [] f = "lastUpdated" -> t
           [] OTHER -> job[f]]

\* The value addJob returns after its save: this.jobs.length - 1, read then
\* (pushedAt is the index the record was pushed at).
addJobResult(jobList, pushedAt) == Len(jobList) - 1

(***************************************************************************)
(* How a step leaves the caller: returned, or suspended at an await.       *)
(***************************************************************************)
Return(p, o, v, app) ==
  /\ pc' = [pc EXCEPT ![p] = "idle"]
  /\ op' = [op EXCEPT ![p] = NoOp]
  /\ loc' = [loc EXCEPT ![p] = NoLoc]
  /\ lastRet' = [op |-> o, val |-> v, appended |-> app]

Suspend(p, l, at) ==
  /\ pc' = [pc EXCEPT ![p] = at]
  /\ loc' = [loc EXCEPT ![p] = l]
  /\ op' = op
  /\ lastRet' = NoRet

\* saveData(): saveDataInternal(this.jobs) runs to its await of fs.mkdir.
saveData(p, l) == Suspend(p, [l EXCEPT !.jobList = jobs, !.inLoad = FALSE], "mkdir")

\* A range check that forgets the negative indices.
outOfRangeUpperOnly(jobIndex, length) == jobIndex >= length

\* if (jobIndex < 0 || jobIndex >= this.jobs.length)
outOfRange(jobIndex, length) == jobIndex < 0 \/ jobIndex >= length

(***************************************************************************)
(* Calls.  Each begins with `await this.initialize()`: when the store is   *)
(* initialized the call goes on in the next microtask, otherwise loadData  *)
(* is entered and the call waits for fs.readFile.  Microtasks run before   *)
(* any file-system completion and before any other call is made, and a     *)
(* result is delivered to its caller likewise.  A call takes the first     *)
(* free caller.                                                            *)
(***************************************************************************)
NoMicrotask == lastRet = NoRet /\ \A q \in Procs : pc[q] # "body"

\* The model's bound on the mutations made: a call that may still mutate has
\* its mutation reserved when it is made.
MutatingKinds == {"addJob", "updateJobStatus", "addNote"}

Unspent(q) == pc[q] \in {"readFile", "body"} \/ loc[q].inLoad

Budget ==
  now + Cardinality({q \in Procs : Unspent(q) /\ op[q].kind \in MutatingKinds})
    <= MaxMutations

\* A call whose initialize loads the file whether or not the store is
\* initialized.
CallAlwaysLoading(p, o) ==
  /\ \A q \in Procs : pc[q] # "body"
  /\ IF o.prev = NoPrev
     THEN lastRet = NoRet
     ELSE /\ lastRet.op.kind = "addJob"
          /\ lastRet.val.kind = "number"
          /\ o.prev = [cand |-> lastRet.op.cand, num |-> lastRet.val.num]
  /\ \A q \in Procs : q < p => pc[q] # "idle"
  /\ o.kind \in MutatingKinds => Budget
  /\ pc' = [pc EXCEPT ![p] = "readFile"]
  /\ op' = [op EXCEPT ![p] = o]
  /\ loc' = [loc EXCEPT ![p] = NoLoc]
  /\ lastRet' = NoRet
  /\ logged' = {}
  /\ UNCHANGED <<file, arrays, jobs, initialized, now, resolved>>

\* if (this.initialized) return; this.jobs = await this.loadData()
Call(p, o) ==
  /\ \A q \in Procs : pc[q] # "body"
  /\ IF o.prev = NoPrev
     THEN lastRet = NoRet
     ELSE /\ lastRet.op.kind = "addJob"
          /\ lastRet.val.kind = "number"
          /\ o.prev = [cand |-> lastRet.op.cand, num |-> lastRet.val.num]
  /\ \A q \in Procs : q < p => pc[q] # "idle"
  /\ o.kind \in MutatingKinds => Budget
  /\ pc' = [pc EXCEPT ![p] = IF initialized THEN "body" ELSE "readFile"]
  /\ op' = [op EXCEPT ![p] = o]
  /\ loc' = [loc EXCEPT ![p] = NoLoc]
  /\ lastRet' = NoRet
  /\ logged' = {}
  /\ UNCHANGED <<file, arrays, jobs, initialized, now, resolved>>

initialize(p) ==
  /\ pc[p] = "idle"
  /\ Call(p, OpRec("initialize", NoCand, 0, "found", FALSE, <<>>))

addJob(p) ==
  /\ pc[p] = "idle"
  /\ \E c \in Candidates : Call(p, OpRec("addJob", c, 0, "found", FALSE, <<>>))

\* addJob called by the caller of an addJob on receiving its result, as the
\* loop of the search route does.
addJobNext(p) ==
  /\ pc[p] = "idle"
  /\ \E c \in Candidates :
       Call(p, [OpRec("addJob", c, 0, "found", FALSE, <<>>) EXCEPT
                  !.prev = [cand |-> lastRet.op.cand, num |-> lastRet.val.num]])

updateJobStatus(p) ==
  /\ pc[p] = "idle"
  /\ \E i \in IndexArgs, s \in Statuses, n \in NoteTexts :
       Call(p, OpRec("updateJobStatus", NoCand, i, s, TRUE, n))

\* updateJobStatus as the apply route calls it:
\* updateJobStatus(jobIndex, JobStatus.APPLIED, `Application submitted ...`)
updateJobStatusApplied(p) ==
  /\ pc[p] = "idle"
  /\ \E i \in IndexArgs, n \in NoteTexts :
       Call(p, OpRec("updateJobStatus", NoCand, i, "applied", TRUE, n))

addNote(p) ==
  /\ pc[p] = "idle"
  /\ \E i \in IndexArgs, n \in NoteTexts :
       Call(p, OpRec("addNote", NoCand, i, "found", TRUE, n))

\* The status values a PATCH /api/jobs body may carry: the route passes
\* the body's status to updateJobStatus as it is.
BodyStatuses == Statuses \cup {"rejected"}

\* PATCH /api/jobs: const { index, status, note } = await request.json();
\* await jobTracker.updateJobStatus(index, status, note).  The getJob that
\* follows a successful update only reads.
PATCH(p) ==
  /\ pc[p] = "idle"
  /\ \E i \in IndexArgs, s \in BodyStatuses, n \in NoteTexts :
       Call(p, OpRec("updateJobStatus", NoCand, i, s, TRUE, n))

\* checkDuplicate is synchronous and does not call initialize.
checkDuplicateCall(p) ==
  \E c \in Candidates :
    /\ NoMicrotask
    /\ pc[p] = "idle"
    /\ \A q \in Procs : q < p => pc[q] # "idle"
    /\ Return(p, OpRec("checkDuplicate", c, 0, "found", FALSE, <<>>),
              checkDuplicate(arrays[jobs], c.company, c.jobTitle, c.jobUrl), FALSE)
    /\ logged' = {}
    /\ UNCHANGED <<file, arrays, jobs, initialized, now, resolved>>

(***************************************************************************)
(* The queries.  They are synchronous and do not call initialize.  A       *)
(* record is returned by reference: the array it is in and its index       *)
(* there.  A list is returned as a new array of such references.           *)
(***************************************************************************)
RJob(a, i) == [kind |-> "job", num |-> 0, bool |-> FALSE, ref |-> [arr |-> a, idx |-> i]]
RList(refs) == [kind |-> "list", num |-> 0, bool |-> FALSE, list |-> refs]
RStats(st) == [kind |-> "statistics", num |-> 0, bool |-> FALSE, stats |-> st]

\* this.jobs.at(index) ?? null, which counts a negative index from the end.
getJobAt(a, index) ==
  IF InRange(arrays[a], index) THEN RJob(a, index)
  ELSE IF index < 0 /\ -index <= Len(arrays[a]) THEN RJob(a, Len(arrays[a]) + index)
  ELSE RNull

\* this.jobs[index] ?? null
getJob(a, index) == IF InRange(arrays[a], index) THEN RJob(a, index) ELSE RNull

\* Array.prototype.filter, given the positions of the elements that pass: a
\* new array of those elements, in the order of the array.
filter(a, hits) ==
  [k \in 1..Cardinality(hits) |->
     [arr |-> a, idx |-> (CHOOSE i \in hits : Cardinality({j \in hits : j < i}) = k - 1) - 1]]

\* String.prototype.includes
includes(str, sub) ==
  \E i \in 0..(Len(str) - Len(sub)) : SubSeq(str, i + 1, i + Len(sub)) = sub

\* this.jobs.filter((job) => job.status === status)
getJobsByStatus(a, status) ==
  RList(filter(a, {i \in 1..Len(arrays[a]) : arrays[a][i].status = status}))

\* this.jobs.filter((job) => job.company.toLowerCase().includes(company.toLowerCase()))
getJobsByCompany(a, company) ==
  RList(filter(a, {i \in 1..Len(arrays[a]) :
                     includes(toLowerCase(arrays[a][i].company), toLowerCase(company))}))

\* The filter of searchJobs: jobTitle, company or location includes the query.
searchJobs(a, query) ==
  RList(filter(a, {i \in 1..Len(arrays[a]) :
                     LET job == arrays[a][i]
                         queryLower == toLowerCase(query)
                     IN  \/ includes(toLowerCase(job.jobTitle), queryLower)
                         \/ includes(toLowerCase(job.company), queryLower)
                         \/ /\ "location" \in DOMAIN job
                            /\ includes(toLowerCase(job.location), queryLower)}))

\* [...this.jobs]
getAllJobs(a) == RList([k \in 1..Len(arrays[a]) |-> [arr |-> a, idx |-> k - 1]])

\* Names of properties that every object inherits from Object.prototype,
\* among them these; as statuses and job boards, and spelt as companies.
ObjectPrototypeKeys == {"constructor", "valueOf", "toString", "hasOwnProperty"}

ObjectPrototypeCompanies == {ValueOf}

\* A value held by a statistics map: the number n, or, when text, what a
\* function followed by n digits 1 reads as.
Count(n) == [n |-> n, text |-> FALSE]

\* map[key] = (map[key] || 0) + 1 on an object literal: a key the map does
\* not own is looked up in Object.prototype, and what is found there is
\* truthy, so that + concatenates.
bump(map, key, inherited) ==
  [k \in DOMAIN map \cup {key} |->
     IF k # key THEN map[k]
     ELSE IF key \in DOMAIN map THEN [map[key] EXCEPT !.n = @ + 1]
     ELSE [n |-> 1, text |-> inherited]]

RECURSIVE getStatisticsLoop(_, _, _)
\* for (const job of this.jobs) { ... }, from the job at position i on.
getStatisticsLoop(jobList, i, stats) ==
  IF i > Len(jobList) THEN stats
  ELSE LET job == jobList[i]
           status == IF "status" \in DOMAIN job THEN job.status ELSE "unknown"
           board == IF "jobBoard" \in DOMAIN job /\ job.jobBoard # ""
                    THEN job.jobBoard ELSE "unknown"
       IN  getStatisticsLoop(jobList, i + 1,
             [totalJobs |-> stats.totalJobs,
              byStatus |-> bump(stats.byStatus, status, status \in ObjectPrototypeKeys),
              byCompany |-> bump(stats.byCompany, job.company,
                                 job.company \in ObjectPrototypeCompanies),
              byJobBoard |-> bump(stats.byJobBoard, board, board \in ObjectPrototypeKeys),
              appliedCount |-> IF status = "applied" THEN stats.appliedCount + 1
                               ELSE stats.appliedCount])

getStatistics(jobList) ==
  RStats(getStatisticsLoop(jobList, 1,
           [totalJobs |-> Len(jobList), byStatus |-> <<>>, byCompany |-> <<>>,
            byJobBoard |-> <<>>, appliedCount |-> 0]))

QueryKinds ==
  {"checkDuplicate", "getJob", "getJobsByStatus", "getJobsByCompany", "searchJobs",
   "getStatistics", "getAllJobs"}

\* A synchronous call by the first free caller that returns v.
Query(p, o, v) ==
  /\ NoMicrotask
  /\ \A q \in Procs : q < p => pc[q] # "idle"
  /\ Return(p, o, v, FALSE)
  /\ logged' = {}
  /\ UNCHANGED <<file, arrays, jobs, initialized, now, resolved>>

getJobCall(p) ==
  /\ pc[p] = "idle"
  /\ \E i \in IndexArgs :
       Query(p, OpRec("getJob", NoCand, i, "found", FALSE, <<>>), getJob(jobs, i))

getJobsByStatusCall(p) ==
  /\ pc[p] = "idle"
  /\ \E st \in Statuses :
       Query(p, OpRec("getJobsByStatus", NoCand, 0, st, FALSE, <<>>), getJobsByStatus(jobs, st))

getJobsByCompanyCall(p) ==
  /\ pc[p] = "idle"
  /\ \E c \in CompanyQueries :
       Query(p, OpRec("getJobsByCompany", NoCand, 0, "found", FALSE, c),
             getJobsByCompany(jobs, c))

searchJobsCall(p) ==
  /\ pc[p] = "idle"
  /\ \E q \in SearchQueries :
       Query(p, OpRec("searchJobs", NoCand, 0, "found", FALSE, q), searchJobs(jobs, q))

getStatisticsCall(p) ==
  /\ pc[p] = "idle"
  /\ Query(p, OpRec("getStatistics", NoCand, 0, "found", FALSE, <<>>),
           getStatistics(arrays[jobs]))

\* A getAllJobs that loads the file when the store is not initialized.
getAllJobsCallLoading(p) ==
  /\ pc[p] = "idle"
  /\ NoMicrotask
  /\ \A q \in Procs : q < p => pc[q] # "idle"
  /\ IF initialized
     THEN /\ Return(p, OpRec("getAllJobs", NoCand, 0, "found", FALSE, <<>>),
                    getAllJobs(jobs), FALSE)
          /\ UNCHANGED <<arrays, jobs, initialized>>
     ELSE /\ arrays' = Append(arrays, loadDataTry(file).jobList)
          /\ jobs' = Len(arrays) + 1
          /\ initialized' = TRUE
          /\ Return(p, OpRec("getAllJobs", NoCand, 0, "found", FALSE, <<>>),
                    RList([k \in 1..Len(loadDataTry(file).jobList) |->
                             [arr |-> Len(arrays) + 1, idx |-> k - 1]]), FALSE)
  /\ logged' = {}
  /\ UNCHANGED <<file, now, resolved>>

getAllJobsCall(p) ==
  /\ pc[p] = "idle"
  /\ Query(p, OpRec("getAllJobs", NoCand, 0, "found", FALSE, <<>>), getAllJobs(jobs))

\* jobData.additionalInfo = { ...jobData.additionalInfo, applicationProof: {...} }
withApplicationProof(job) ==
  LET old == IF "additionalInfo" \in DOMAIN job /\ job.additionalInfo # Undefined
             THEN job.additionalInfo ELSE <<>>
      merged == IF \E k \in 1..Len(old) : old[k] = "applicationProof"
                THEN old ELSE Append(old, "applicationProof")
  IN  [f \in DOMAIN job \cup {"additionalInfo"} |->
         IF f = "additionalInfo" THEN merged ELSE job[f]]

\* The apply route, on the record getJob has just returned to it.
mergeApplicationProof ==
  /\ lastRet.op.kind = "getJob"
  /\ lastRet.val.kind = "job"
  /\ LET ref == lastRet.val.ref
     IN  arrays' = [arrays EXCEPT ![ref.arr][ref.idx + 1] = withApplicationProof(@)]
  /\ lastRet' = NoRet
  /\ logged' = {}
  /\ UNCHANGED <<file, jobs, initialized, pc, op, loc, now, resolved>>

(***************************************************************************)
(* POST /api/jobs/apply with a jobIndex.  The request awaits initialize,   *)
(* reads the record and checks it, awaits the loading of the applicant's   *)
(* data, awaits the browser agent's applyToJob and, when that succeeded,   *)
(* merges the proof into the record and awaits updateJobStatus, whose      *)
(* outcome decides the response.                                           *)
(***************************************************************************)
RResp(status, error) ==
  [kind |-> "response", num |-> status, bool |-> status = 200, error |-> error]

\* `Application submitted - Session: ...`
ApplyNote == <<"s">>

\* A request is made while the mutations it may still make fit the bound.
ApplyBudget ==
  now + Cardinality({q \in Procs : \/ op[q].kind = "apply"
                                   \/ Unspent(q) /\ op[q].kind \in MutatingKinds})
    <= MaxMutations

\* const jobTracker = getJobTracker(); await jobTracker.initialize()
apply(p) ==
  /\ pc[p] = "idle"
  /\ ApplyBudget
  /\ \E i \in IndexArgs : Call(p, OpRec("apply", NoCand, i, "applied", TRUE, ApplyNote))

\* job = jobTracker.getJob(jobIndex); the 404 and 400 answers; then the await
\* of Promise.all([loadPersonalInfo(), ...]).
applyBody(p) ==
  LET job == getJob(jobs, op[p].idx)
      rec == arrays[job.ref.arr][job.ref.idx + 1]
  IN  /\ logged' = {}
      /\ UNCHANGED <<arrays, jobs, now>>
      /\ CASE job = RNull -> Return(p, op[p], RResp(404, "Job not found"), FALSE)
           [] job # RNull /\ rec.status = "applied" ->
                Return(p, op[p], RResp(400, "Already applied to this job"), FALSE)
           [] job # RNull /\ rec.status # "applied" /\ ~Truthy(rec.jobUrl) ->
                Return(p, op[p], RResp(400, "Job URL is required"), FALSE)
           [] OTHER -> Suspend(p, loc[p], "prepare")

\* The applicant's data is loaded and holds an email: agent.applyToJob is
\* called and awaited.
prepareDone(p) ==
  /\ NoMicrotask
  /\ pc[p] = "prepare"
  /\ Suspend(p, loc[p], "applyToJob")
  /\ logged' = {}
  /\ UNCHANGED <<file, arrays, jobs, initialized, now, resolved>>

\* loadPersonalInfo raises, or the data holds no email.
prepareFail(p) ==
  /\ NoMicrotask
  /\ pc[p] = "prepare"
  /\ \E r \in {RResp(500, "error"), RResp(400, "Email is required")} :
       Return(p, op[p], r, FALSE)
  /\ logged' = {}
  /\ UNCHANGED <<file, arrays, jobs, initialized, now, resolved>>

\* An apply route that merges no proof.
applyToJobDoneWithoutProof(p) ==
  /\ NoMicrotask
  /\ pc[p] = "applyToJob"
  /\ arrays' = arrays
  /\ op' = [op EXCEPT ![p] =
              OpRec("updateJobStatus", NoCand, op[p].idx, "applied", TRUE, ApplyNote)]
  /\ pc' = [pc EXCEPT ![p] = IF initialized THEN "body" ELSE "readFile"]
  /\ loc' = loc
  /\ lastRet' = NoRet
  /\ logged' = {}
  /\ UNCHANGED <<file, jobs, initialized, now, resolved>>

\* applyToJob resolves with success: jobData = jobTracker.getJob(jobIndex);
\* if (jobData) jobData.additionalInfo = {...}; then
\* await jobTracker.updateJobStatus(jobIndex, JobStatus.APPLIED, note),
\* which begins with its await of initialize.
applyToJobDone(p) ==
  /\ NoMicrotask
  /\ pc[p] = "applyToJob"
  /\ arrays' = IF getJob(jobs, op[p].idx) = RNull
               THEN arrays
               ELSE [arrays EXCEPT ![jobs][op[p].idx + 1] = withApplicationProof(@)]
  /\ op' = [op EXCEPT ![p] =
              OpRec("updateJobStatus", NoCand, op[p].idx, "applied", TRUE, ApplyNote)]
  /\ pc' = [pc EXCEPT ![p] = IF initialized THEN "body" ELSE "readFile"]
  /\ loc' = loc
  /\ lastRet' = NoRet
  /\ logged' = {}
  /\ UNCHANGED <<file, jobs, initialized, now, resolved>>

\* applyToJob resolves with success: false, or raises.
applyToJobFail(p) ==
  /\ NoMicrotask
  /\ pc[p] = "applyToJob"
  /\ Return(p, op[p], RResp(500, "error"), FALSE)
  /\ logged' = {"apply"}
  /\ UNCHANGED <<file, arrays, jobs, initialized, now, resolved>>

\* The caller takes the result, and the calls that appended a record or
\* updated one and did not raise are counted.
deliverCounted ==
  /\ lastRet # NoRet
  /\ lastRet' = NoRet
  /\ logged' = {}
  /\ resolved' = IF (lastRet.appended /\ lastRet.val # RThrow) \/ lastRet.val = RBool(TRUE)
                 THEN resolved + 1 ELSE resolved
  /\ UNCHANGED <<file, arrays, jobs, initialized, pc, op, loc, now>>

\* The caller takes the result.
deliver ==
  /\ lastRet # NoRet
  /\ lastRet' = NoRet
  /\ logged' = {}
  /\ UNCHANGED <<file, arrays, jobs, initialized, pc, op, loc, now, resolved>>

(***************************************************************************)
(* The part of a call that follows `await this.initialize()`, up to the    *)
(* call's return or to the await of fs.mkdir in saveDataInternal.          *)
(***************************************************************************)
initializeBody(p) ==
  /\ Return(p, op[p], RVoid, FALSE)
  /\ logged' = {}
  /\ UNCHANGED <<arrays, jobs, now>>

\* An addJob that stamps the record it found as a duplicate.
addJobBodyStamping(p) ==
  LET jobData == op[p].cand
      duplicateIdx == checkDuplicate(arrays[jobs], jobData.company, jobData.jobTitle, jobData.jobUrl)
  IN  IF duplicateIdx.kind # "null"
      THEN /\ Return(p, op[p], duplicateIdx, FALSE)
           /\ logged' = {}
           /\ arrays' = [arrays EXCEPT ![jobs][duplicateIdx.num + 1].lastUpdated = now]
           /\ UNCHANGED <<jobs, now>>
      ELSE /\ arrays' = [arrays EXCEPT ![jobs] = Append(@, newJob(jobData, now))]
           /\ now' = now + 1
           /\ saveData(p, [loc[p] EXCEPT !.appended = TRUE, !.index = Len(arrays[jobs])])
           /\ logged' = {}
           /\ jobs' = jobs

addJobBody(p) ==
  LET jobData == op[p].cand
      duplicateIdx == checkDuplicate(arrays[jobs], jobData.company, jobData.jobTitle, jobData.jobUrl)
  IN  IF duplicateIdx.kind # "null"
      THEN /\ Return(p, op[p], duplicateIdx, FALSE)
           /\ logged' = {}
           /\ UNCHANGED <<arrays, jobs, now>>
      ELSE /\ arrays' = [arrays EXCEPT ![jobs] = Append(@, newJob(jobData, now))]
           /\ now' = now + 1
           /\ saveData(p, [loc[p] EXCEPT !.appended = TRUE, !.index = Len(arrays[jobs])])
           /\ logged' = {}
           /\ jobs' = jobs

updateJobStatusBody(p) ==
  IF outOfRange(op[p].idx, Len(arrays[jobs]))
  THEN /\ Return(p, op[p], RBool(FALSE), FALSE)
       /\ logged' = {"range"}
       /\ UNCHANGED <<arrays, jobs, now>>
  ELSE /\ arrays' = [arrays EXCEPT ![jobs][op[p].idx + 1] =
                       setStatus(@, op[p].status, op[p].note, now)]
       /\ now' = now + 1
       /\ saveData(p, loc[p])
       /\ logged' = {}
       /\ jobs' = jobs

addNoteBody(p) ==
  IF outOfRange(op[p].idx, Len(arrays[jobs]))
  THEN /\ Return(p, op[p], RBool(FALSE), FALSE)
       /\ logged' = {"range"}
       /\ UNCHANGED <<arrays, jobs, now>>
  ELSE /\ arrays' = [arrays EXCEPT ![jobs][op[p].idx + 1] = pushNote(@, op[p].note, now)]
       /\ now' = now + 1
       /\ saveData(p, loc[p])
       /\ logged' = {}
       /\ jobs' = jobs

body(p) ==
  /\ lastRet = NoRet
  /\ pc[p] = "body"
  /\ UNCHANGED <<file, initialized, resolved>>
  /\ CASE op[p].kind = "initialize" -> initializeBody(p)
       [] op[p].kind = "addJob" -> addJobBody(p)
       [] op[p].kind = "updateJobStatus" -> updateJobStatusBody(p)
       [] op[p].kind = "addNote" -> addNoteBody(p)
       [] op[p].kind = "apply" -> applyBody(p)

(***************************************************************************)
(* Completions of the file-system requests.  A request takes effect on the *)
(* file at the moment its promise settles.                                 *)
(***************************************************************************)
\* An initialize that leaves the store uninitialized when the load logged
\* an error.
initializeResumeUnlessLogged(p, isNew, jobList, elog) ==
  /\ arrays' = IF isNew THEN Append(arrays, jobList) ELSE arrays
  /\ jobs' = IF isNew THEN Len(arrays) + 1 ELSE loc[p].jobList
  /\ initialized' = (elog = {})
  /\ Suspend(p, NoLoc, "body")
  /\ logged' = elog
  /\ now' = now

\* initialize resumes with the list loadData returned:
\* this.jobs = <that list>; this.initialized = true
initializeResume(p, isNew, jobList, elog) ==
  /\ arrays' = IF isNew THEN Append(arrays, jobList) ELSE arrays
  /\ jobs' = IF isNew THEN Len(arrays) + 1 ELSE loc[p].jobList
  /\ initialized' = TRUE
  /\ Suspend(p, NoLoc, "body")
  /\ logged' = elog
  /\ now' = now

\* initialize is left by an error loadData did not catch.
initializeThrow(p, elog) ==
  /\ Return(p, op[p], RThrow, FALSE)
  /\ logged' = elog
  /\ UNCHANGED <<arrays, jobs, initialized, now>>

\* A save whose failure is logged and not passed on to the caller.
saveResumeSwallowing(p, ok) ==
  LET elog == IF ok THEN {} ELSE {"save"}
      c == loadDataCatch("EIO")
  IN  CASE loc[p].inLoad /\ ok -> initializeResume(p, FALSE, <<>>, elog)
        [] loc[p].inLoad /\ ~ok /\ ~c.throws ->
             initializeResume(p, TRUE, <<>>, IF c.logs THEN elog \cup {"load"} ELSE elog)
        [] loc[p].inLoad /\ ~ok /\ c.throws -> initializeThrow(p, elog)
        [] ~loc[p].inLoad ->
             /\ logged' = elog
             /\ UNCHANGED <<arrays, jobs, initialized, now>>
             /\ Return(p, op[p],
                       CASE op[p].kind = "addJob" -> RNum(addJobResult(arrays[jobs], loc[p].index))
                         [] OTHER -> RBool(TRUE),
                       loc[p].appended)

\* saveDataInternal resumes after its try block, and its caller after it.
saveResume(p, ok) ==
  LET elog == IF ok THEN {} ELSE {"save"}
      c == loadDataCatch("EIO")
  IN  CASE loc[p].inLoad /\ ok -> initializeResume(p, FALSE, <<>>, elog)
        [] loc[p].inLoad /\ ~ok /\ ~c.throws ->
             initializeResume(p, TRUE, <<>>, IF c.logs THEN elog \cup {"load"} ELSE elog)
        [] loc[p].inLoad /\ ~ok /\ c.throws -> initializeThrow(p, elog)
        [] ~loc[p].inLoad ->
             /\ logged' = elog
             /\ UNCHANGED <<arrays, jobs, initialized, now>>
             /\ Return(p, op[p],
                       CASE ~ok -> RThrow
                         [] op[p].kind = "addJob" -> RNum(addJobResult(arrays[jobs], loc[p].index))
                         [] OTHER -> RBool(TRUE),
                       loc[p].appended)

\* fs.readFile settles: loadData resumes with the file's content, and
\* initialize with what loadData returns.
readFileDone(p) ==
  /\ NoMicrotask
  /\ pc[p] = "readFile"
  /\ file' = file
  /\ resolved' = resolved
  /\ LET r == loadDataTry(file)
         c == loadDataCatch(r.code)
     IN  CASE r.outcome = "return" -> initializeResume(p, TRUE, r.jobList, {})
           [] r.outcome = "migrate" ->
                /\ arrays' = Append(arrays, r.jobList)
                /\ Suspend(p, [loc[p] EXCEPT !.jobList = Len(arrays) + 1, !.inLoad = TRUE],
                           "mkdir")
                /\ logged' = {}
                /\ UNCHANGED <<jobs, initialized, now>>
           [] r.outcome = "error" /\ ~c.throws ->
                initializeResume(p, TRUE, <<>>, IF c.logs THEN {"load"} ELSE {})
           [] OTHER -> initializeThrow(p, {})

\* fs.mkdir settles: the list is serialised as it is now and fs.writeFile called.
mkdirDone(p) ==
  /\ NoMicrotask
  /\ pc[p] = "mkdir"
  /\ Suspend(p, [loc[p] EXCEPT !.content = JsonStringify(arrays[loc[p].jobList])],
             "writeFile")
  /\ logged' = {}
  /\ UNCHANGED <<file, arrays, jobs, initialized, now, resolved>>

mkdirFail(p) ==
  /\ NoMicrotask
  /\ pc[p] = "mkdir"
  /\ file' = file
  /\ resolved' = resolved
  /\ saveResume(p, FALSE)

\* A write that stores the collection as it is when the write settles.
writeFileDoneSerialisingLate(p) ==
  /\ NoMicrotask
  /\ pc[p] = "writeFile"
  /\ file' = JsonStringify(arrays[jobs])
  /\ resolved' = resolved
  /\ saveResume(p, TRUE)

\* A write that leaves alone a file another program has written.
writeFileDoneSparingForeign(p) ==
  /\ NoMicrotask
  /\ pc[p] = "writeFile"
  /\ file' = IF file \in ForeignFiles THEN file ELSE loc[p].content
  /\ resolved' = resolved
  /\ saveResume(p, TRUE)

\* fs.writeFile settles, having replaced the file's content.
writeFileDone(p) ==
  /\ NoMicrotask
  /\ pc[p] = "writeFile"
  /\ file' = loc[p].content
  /\ resolved' = resolved
  /\ saveResume(p, TRUE)

\* Another program replaces the content of the data file: nothing in the
\* store guards the file.
externalWrite ==
  /\ NoMicrotask
  /\ file' \in ForeignFiles \ {file}
  /\ lastRet' = NoRet
  /\ logged' = {}
  /\ UNCHANGED <<arrays, jobs, initialized, pc, op, loc, now, resolved>>

\* fs.writeFile fails: before touching the file, or after truncating it.
writeFileFail(p) ==
  /\ NoMicrotask
  /\ pc[p] = "writeFile"
  /\ file' \in {file, Garbage}
  /\ resolved' = resolved
  /\ saveResume(p, FALSE)

Next ==
  \/ \E p \in Procs :
       \/ initialize(p)
       \/ addJob(p)
       \/ updateJobStatus(p)
       \/ addNote(p)
       \/ checkDuplicateCall(p)
       \/ body(p)
       \/ readFileDone(p)
       \/ mkdirDone(p)
       \/ mkdirFail(p)
       \/ writeFileDone(p)
       \/ writeFileFail(p)
  \/ deliver

Spec == Init /\ [][Next]_vars

\* One call at a time: a call is made only when no other is in flight.
Quiescent == \A q \in Procs : pc[q] = "idle"

NextSeq ==
  \/ \E p \in Procs :
       \/ Quiescent /\ initialize(p)
       \/ Quiescent /\ addJob(p)
       \/ Quiescent /\ addJobNext(p)
       \/ Quiescent /\ updateJobStatus(p)
       \/ Quiescent /\ addNote(p)
       \/ Quiescent /\ checkDuplicateCall(p)
       \/ body(p)
       \/ readFileDone(p)
       \/ mkdirDone(p)
       \/ mkdirFail(p)
       \/ writeFileDone(p)
       \/ writeFileFail(p)
  \/ deliver

SpecSeq == InitSeq /\ [][NextSeq]_vars

\* Concurrent addJob and updateJobStatus calls whose callers count the calls
\* that succeeded.
InitRace == InitWith({Missing, ArrayDoc(<<FJob0>>)})

NextRace ==
  \/ \E p \in Procs :
       \/ addJob(p)
       \/ updateJobStatus(p)
       \/ body(p)
       \/ readFileDone(p)
       \/ mkdirDone(p)
       \/ mkdirFail(p)
       \/ writeFileDone(p)
       \/ writeFileFail(p)
  \/ deliverCounted

SpecRace == InitRace /\ [][NextRace]_vars

\* Calls issued one at a time, and queries made at any moment between the
\* steps of a call, by callers of which one goes on as the apply route does.
InitQuery == InitWith(InitFilesQuery)

NextQuery ==
  \/ \E p \in Procs :
       \/ Quiescent /\ initialize(p)
       \/ Quiescent /\ updateJobStatusApplied(p)
       \/ checkDuplicateCall(p)
       \/ getJobCall(p)
       \/ getJobsByStatusCall(p)
       \/ getJobsByCompanyCall(p)
       \/ searchJobsCall(p)
       \/ getStatisticsCall(p)
       \/ getAllJobsCall(p)
       \/ body(p)
       \/ readFileDone(p)
       \/ mkdirDone(p)
       \/ mkdirFail(p)
       \/ writeFileDone(p)
       \/ writeFileFail(p)
  \/ mergeApplicationProof
  \/ deliver

SpecQuery == InitQuery /\ [][NextQuery]_vars

\* The store's mutating operations and PATCH /api/jobs requests, one at a
\* time, on a store that starts from an empty or well-formed file.
InitPatch == InitWith({Missing, ArrayDoc(<<FJob0, FJob1>>)})

NextPatch ==
  \/ \E p \in Procs :
       \/ Quiescent /\ addJob(p)
       \/ Quiescent /\ updateJobStatus(p)
       \/ Quiescent /\ addNote(p)
       \/ Quiescent /\ PATCH(p)
       \/ body(p)
       \/ readFileDone(p)
       \/ mkdirDone(p)
       \/ mkdirFail(p)
       \/ writeFileDone(p)
       \/ writeFileFail(p)
  \/ deliver

SpecPatch == InitPatch /\ [][NextPatch]_vars

\* Concurrent POST /api/jobs/apply requests.
InitApply ==
  InitWith({Missing, ArrayDoc(<<FJob6, FJob0>>), ArrayDoc(<<FJob1, FJob4>>),
            ArrayDoc(<<FJob2, FJob6>>)})

NextApply ==
  \/ \E p \in Procs :
       \/ apply(p)
       \/ body(p)
       \/ prepareDone(p)
       \/ prepareFail(p)
       \/ applyToJobDone(p)
       \/ applyToJobFail(p)
       \/ readFileDone(p)
       \/ mkdirDone(p)
       \/ mkdirFail(p)
       \/ writeFileDone(p)
       \/ writeFileFail(p)
  \/ deliver

SpecApply == InitApply /\ [][NextApply]_vars

\* POST /api/jobs/apply requests, each answered before the next is made.
NextApplySeq ==
  \/ \E p \in Procs :
       \/ Quiescent /\ apply(p)
       \/ body(p)
       \/ prepareDone(p)
       \/ prepareFail(p)
       \/ applyToJobDone(p)
       \/ applyToJobFail(p)
       \/ readFileDone(p)
       \/ mkdirDone(p)
       \/ mkdirFail(p)
       \/ writeFileDone(p)
       \/ writeFileFail(p)
  \/ deliver

SpecApplySeq == InitApply /\ [][NextApplySeq]_vars

\* Calls and queries issued one at a time while another program writes the
\* data file at any moment.
InitExternal == InitWith({Missing, ArrayDoc(<<FJob0, FJob1>>)})

NextExternal ==
  \/ \E p \in Procs :
       \/ Quiescent /\ initialize(p)
       \/ Quiescent /\ addJob(p)
       \/ Quiescent /\ updateJobStatus(p)
       \/ Quiescent /\ getAllJobsCall(p)
       \/ body(p)
       \/ readFileDone(p)
       \/ mkdirDone(p)
       \/ mkdirFail(p)
       \/ writeFileDone(p)
       \/ writeFileFail(p)
  \/ externalWrite
  \/ deliver

SpecExternal == InitExternal /\ [][NextExternal]_vars

\* Calls issued one at a time on a store whose file is malformed or
\* unreadable when it is loaded.
InitFallback == InitWith({Garbage, Unreadable})

SpecFallback == InitFallback /\ [][NextSeq]_vars

(***************************************************************************)
(* Vocabulary of the properties.                                           *)
(***************************************************************************)
\* The collection: the array this.jobs refers to.
Collection == arrays[jobs]

\* What identifies a record to its users: company, jobTitle and jobUrl.
Identity(job) ==
  <<job.company, job.jobTitle, IF "jobUrl" \in DOMAIN job THEN <<job.jobUrl>> ELSE <<>> >>

\* Caller p's call runs, in this step, the part that follows initialize.
InBody(p, kind) == pc[p] = "body" /\ op[p].kind = kind

\* Caller p's call returns, in this step, from its save.
ReturnsFromSave(p, kind) ==
  /\ pc[p] \in {"mkdir", "writeFile"}
  /\ ~loc[p].inLoad
  /\ op[p].kind = kind
  /\ pc'[p] = "idle"

\* No call issues a write in this step.
NoWriteIssued == \A q \in Procs : pc'[q] \in {"mkdir", "writeFile"} => pc'[q] = pc[q]

C6_IndicesStable ==
  [][/\ Len(arrays'[jobs']) >= Len(arrays[jobs])
     /\ \A i \in 1..Len(arrays[jobs]) :
          i <= Len(arrays'[jobs'])
            => Identity(arrays'[jobs'][i]) = Identity(arrays[jobs][i])]_vars

(***************************************************************************)
(* C7.  updateJobStatus with an integer index outside [0, length) returns  *)
(* false without throwing, changes no record and issues no write.          *)
(***************************************************************************)
C7_UpdateOutOfRange ==
  [][\A p \in Procs :
       (InBody(p, "updateJobStatus") /\ ~InRange(Collection, op[p].idx))
       => /\ lastRet' = [op |-> op[p], val |-> RBool(FALSE), appended |-> FALSE]
          /\ pc'[p] = "idle"
          /\ arrays' = arrays
          /\ jobs' = jobs
          /\ file' = file
          /\ NoWriteIssued]_vars

\* updateJobStatus has returned false for the index just past the last record
\* of a collection that has records.
C7_Witness ==
  /\ lastRet.op.kind = "updateJobStatus"
  /\ lastRet.val = RBool(FALSE)
  /\ Len(Collection) >= 1
  /\ lastRet.op.idx = Len(Collection)
  /\ "range" \in logged

(***************************************************************************)
(* C2.  When the candidate passed to addJob is a duplicate of a stored     *)
(* record, addJob returns the index of a record the candidate duplicates   *)
(* and changes nothing: the collection, every field of every record and    *)
(* the file are unchanged and no write is issued.  Hence an addJob called  *)
(* on the result of an addJob with the same candidate appends nothing and  *)
(* returns the same index.  A candidate duplicates a record when their     *)
(* URLs are equal by the store's comparison or their company and jobTitle  *)
(* are.                                                                    *)
(***************************************************************************)
IsDuplicateOf(job, cand) ==
  \/ Truthy(cand.jobUrl) /\ UrlEquals(job, cand.jobUrl)
  \/ TitleEquals(job, cand.company, cand.jobTitle)

HasDuplicate(jobList, cand) == \E i \in 1..Len(jobList) : IsDuplicateOf(jobList[i], cand)

\* The step is the return of an addJob with an index.
AddJobReturns ==
  /\ lastRet = NoRet
  /\ lastRet'.op.kind = "addJob"
  /\ lastRet'.val.kind = "number"

C2_DuplicateChangesNothing ==
  \A p \in Procs :
    (InBody(p, "addJob") /\ HasDuplicate(Collection, op[p].cand))
    => /\ lastRet'.op = op[p]
       /\ lastRet'.val.kind = "number"
       /\ ~lastRet'.appended
       /\ InRange(Collection, lastRet'.val.num)
       /\ IsDuplicateOf(At(Collection, lastRet'.val.num), op[p].cand)
       /\ pc'[p] = "idle"
       /\ arrays' = arrays
       /\ jobs' = jobs
       /\ file' = file
       /\ NoWriteIssued

C2_SecondAddOfSameCandidate ==
  (AddJobReturns /\ lastRet'.op.prev.cand = lastRet'.op.cand)
  => /\ lastRet'.val.num = lastRet'.op.prev.num
     /\ ~lastRet'.appended

C2_AddJobIdempotent ==
  [][C2_DuplicateChangesNothing /\ C2_SecondAddOfSameCandidate]_vars

\* C2 as stated: the second addJob need only have the same company and
\* jobTitle as the first to append nothing and return the same index.
C2_SecondAddOfSameCompanyAndTitle ==
  (/\ AddJobReturns
   /\ lastRet'.op.prev # NoPrev
   /\ lastRet'.op.prev.cand.company = lastRet'.op.cand.company
   /\ lastRet'.op.prev.cand.jobTitle = lastRet'.op.cand.jobTitle)
  => /\ lastRet'.val.num = lastRet'.op.prev.num
     /\ ~lastRet'.appended

C2_AsStated ==
  [][C2_DuplicateChangesNothing /\ C2_SecondAddOfSameCompanyAndTitle]_vars

\* An addJob has appended a record, and the addJob called on its result with
\* the same candidate has returned the same index without appending.
C2_Witness ==
  /\ lastRet.op.kind = "addJob"
  /\ lastRet.val.kind = "number"
  /\ ~lastRet.appended
  /\ lastRet.op.prev.cand = lastRet.op.cand
  /\ lastRet.op.prev.num = lastRet.val.num
  /\ lastRet.val.num = Len(Collection) - 1
  /\ At(Collection, lastRet.val.num).lastUpdated > 0
  /\ file = JsonStringify(Collection)

(***************************************************************************)
(* C3.  When the candidate passed to addJob is not a duplicate, the        *)
(* collection grows by exactly one record, placed last, with status found, *)
(* lastUpdated the time of the call and the candidate's fields; the        *)
(* records stored before are unchanged; and when addJob returns the file   *)
(* holds the whole collection, the new record included.                    *)
(***************************************************************************)
C3_AddJobAppends ==
  [][\A p \in Procs :
       /\ (InBody(p, "addJob") /\ ~HasDuplicate(Collection, op[p].cand))
          => /\ jobs' = jobs
             /\ Len(arrays'[jobs']) = Len(Collection) + 1
             /\ SubSeq(arrays'[jobs'], 1, Len(Collection)) = Collection
             /\ LET added == arrays'[jobs'][Len(Collection) + 1]
                IN  /\ added.status = "found"
                    /\ added.lastUpdated = now
                    /\ \A i \in 1..Len(Collection) : Collection[i].lastUpdated < now
                    /\ \A f \in DOMAIN op[p].cand : added[f] = op[p].cand[f]
                    /\ DOMAIN added = DOMAIN op[p].cand \cup {"status", "lastUpdated"}
             /\ pc'[p] = "mkdir"
       /\ (ReturnsFromSave(p, "addJob") /\ lastRet'.val.kind = "number")
          => /\ lastRet'.appended
             /\ arrays' = arrays
             /\ jobs' = jobs
             /\ file' = JsonStringify(arrays'[jobs'])
             /\ Identity(file'.items[loc[p].index + 1]) = Identity(op[p].cand)]_vars

\* addJob has returned after appending a record to a collection that had
\* records, and the file holds them all.
C3_Witness ==
  /\ lastRet.op.kind = "addJob"
  /\ lastRet.appended
  /\ lastRet.val.kind = "number"
  /\ Len(Collection) >= 2
  /\ At(Collection, Len(Collection) - 1).status = "found"
  /\ Identity(At(Collection, Len(Collection) - 1)) = Identity(lastRet.op.cand)
  /\ file = JsonStringify(Collection)

(***************************************************************************)
(* C4.  checkDuplicate reports a URL match between a candidate and a       *)
(* stored record only when both have a non-empty jobUrl and the two are    *)
(* equal after trimming and ignoring case, and it does report such a match:*)
(* the record it returns matches the candidate in that way or on company   *)
(* and jobTitle, and when some record matches in that way it returns one.  *)
(***************************************************************************)
BothUrlsMatch(job, cand) ==
  /\ "jobUrl" \in DOMAIN job
  /\ job.jobUrl # <<>>
  /\ cand.jobUrl # <<>>
  /\ trim(toLowerCase(job.jobUrl)) = trim(toLowerCase(cand.jobUrl))

C4_UrlMatchNeedsBothUrls ==
  lastRet.op.kind = "checkDuplicate"
  => LET cand == lastRet.op.cand
     IN  /\ lastRet.val.kind = "number"
            => \/ BothUrlsMatch(At(Collection, lastRet.val.num), cand)
               \/ TitleEquals(At(Collection, lastRet.val.num), cand.company, cand.jobTitle)
         /\ (\E i \in 1..Len(Collection) : BothUrlsMatch(Collection[i], cand))
            => /\ lastRet.val.kind = "number"
               /\ BothUrlsMatch(At(Collection, lastRet.val.num), cand)

(***************************************************************************)
(* C5.  checkDuplicate checks the URL first.  When a URL is supplied and   *)
(* some record's jobUrl equals it after lower-casing and trimming, the     *)
(* result is the lowest index of such a record, whatever matches on        *)
(* company and jobTitle; otherwise it is the lowest index of a record      *)
(* whose company and jobTitle equal the candidate's as whole strings,      *)
(* ignoring case, whatever the URLs; otherwise it is null.                 *)
(***************************************************************************)
UrlMatches(jobList, cand) ==
  {i \in 1..Len(jobList) :
     /\ "jobUrl" \in DOMAIN jobList[i]
     /\ trim(toLowerCase(jobList[i].jobUrl)) = trim(toLowerCase(cand.jobUrl))}

TitleMatches(jobList, cand) ==
  {i \in 1..Len(jobList) :
     /\ toLowerCase(jobList[i].company) = toLowerCase(cand.company)
     /\ toLowerCase(jobList[i].jobTitle) = toLowerCase(cand.jobTitle)}

C5_UrlFirstThenTitle ==
  lastRet.op.kind = "checkDuplicate"
  => LET cand == lastRet.op.cand
         byUrl == UrlMatches(Collection, cand)
         byTitle == TitleMatches(Collection, cand)
     IN  lastRet.val = IF cand.jobUrl # <<>> /\ byUrl # {} THEN RNum(Min(byUrl) - 1)
                       ELSE IF byTitle # {} THEN RNum(Min(byTitle) - 1)
                       ELSE RNull

\* checkDuplicate has returned index 1 for a URL match although the record
\* at index 0 matches the candidate on company and jobTitle.
C5_Witness ==
  /\ lastRet.op.kind = "checkDuplicate"
  /\ lastRet.val = RNum(1)
  /\ 1 \in TitleMatches(Collection, lastRet.op.cand)
  /\ 2 \in UrlMatches(Collection, lastRet.op.cand)
  /\ 2 \notin TitleMatches(Collection, lastRet.op.cand)

(***************************************************************************)
(* C8.  For an index in range, updateJobStatus sets that record's status   *)
(* to the target, whatever the two statuses are, stamps its lastUpdated    *)
(* and changes nothing else: the record's other fields, its notes among    *)
(* them although a note is supplied, and all other records are unchanged.  *)
(* It issues the write of the collection and, the write done, returns true *)
(* with the file holding the whole collection.                             *)
(***************************************************************************)
\* Record new is record old but for the fields of the set changed.
SameBut(old, new, changed) ==
  /\ DOMAIN new = DOMAIN old \cup changed
  /\ \A f \in DOMAIN old \ changed : new[f] = old[f]

\* The step changes the record at index idx of the collection, and no other.
OnlyRecordChanges(idx) ==
  /\ jobs' = jobs
  /\ Len(arrays'[jobs']) = Len(Collection)
  /\ \A i \in 1..Len(Collection) : i # idx + 1 => arrays'[jobs'][i] = Collection[i]

\* The step is the return of caller p's call, its write done, with the file
\* holding the whole collection.
ReturnsTruePersisted(p) ==
  /\ lastRet'.val = RBool(TRUE)
  /\ lastRet'.op = op[p]
  /\ arrays' = arrays
  /\ jobs' = jobs
  /\ file' = JsonStringify(arrays'[jobs'])

C8_UpdateInRange ==
  [][\A p \in Procs :
       /\ (InBody(p, "updateJobStatus") /\ InRange(Collection, op[p].idx))
          => /\ OnlyRecordChanges(op[p].idx)
             /\ LET old == At(Collection, op[p].idx)
                    new == At(arrays'[jobs'], op[p].idx)
                IN  /\ new.status = op[p].status
                    /\ new.lastUpdated = now
                    /\ old.lastUpdated < now
                    /\ SameBut(old, new, {"status", "lastUpdated"})
             /\ pc'[p] = "mkdir"
             /\ loc'[p].jobList = jobs
       /\ (ReturnsFromSave(p, "updateJobStatus") /\ lastRet'.val # RThrow)
          => ReturnsTruePersisted(p)]_vars

\* updateJobStatus, given a note, has returned true after setting the applied
\* record of the file back to found: its one note is the note it had.
C8_Witness ==
  /\ lastRet.op.kind = "updateJobStatus"
  /\ lastRet.val = RBool(TRUE)
  /\ lastRet.op.status = "found"
  /\ lastRet.op.hasNote
  /\ InRange(Collection, lastRet.op.idx)
  /\ At(Collection, lastRet.op.idx) =
       [FJob0 EXCEPT !.status = "found", !.lastUpdated = now - 1]
  /\ file = JsonStringify(Collection)

(***************************************************************************)
(* C9.  Notes are append-only.  addNote with an index in range appends one *)
(* entry, with the text given and the time of the call, after the entries  *)
(* the record had (none when it had no notes), stamps lastUpdated, changes *)
(* nothing else and persists the collection; with an index out of range it *)
(* returns false with no change and no write; and no step of any operation *)
(* shortens or rewrites the notes of a record.                             *)
(***************************************************************************)
NotesOf(job) == IF "notes" \in DOMAIN job THEN job.notes ELSE <<>>

IsPrefix(a, b) == Len(a) <= Len(b) /\ SubSeq(b, 1, Len(a)) = a

C9_NotesAppendOnly ==
  [][/\ \A i \in 1..Len(Collection) :
          i <= Len(arrays'[jobs'])
            => IsPrefix(NotesOf(Collection[i]), NotesOf(arrays'[jobs'][i]))
     /\ \A p \in Procs :
          /\ (InBody(p, "addNote") /\ InRange(Collection, op[p].idx))
             => /\ OnlyRecordChanges(op[p].idx)
                /\ LET old == At(Collection, op[p].idx)
                       new == At(arrays'[jobs'], op[p].idx)
                   IN  /\ new.notes = Append(NotesOf(old),
                                             [timestamp |-> now, note |-> op[p].note])
                       /\ new.lastUpdated = now
                       /\ SameBut(old, new, {"notes", "lastUpdated"})
                /\ pc'[p] = "mkdir"
                /\ loc'[p].jobList = jobs
          /\ (InBody(p, "addNote") /\ ~InRange(Collection, op[p].idx))
             => /\ lastRet' = [op |-> op[p], val |-> RBool(FALSE), appended |-> FALSE]
                /\ arrays' = arrays
                /\ jobs' = jobs
                /\ file' = file
                /\ NoWriteIssued
          /\ (ReturnsFromSave(p, "addNote") /\ lastRet'.val # RThrow)
             => ReturnsTruePersisted(p)
          /\ (pc'[p] # pc[p] /\ ~InBody(p, "addNote"))
             => \A i \in 1..Len(Collection) :
                  i <= Len(arrays'[jobs'])
                    => NotesOf(arrays'[jobs'][i]) = NotesOf(Collection[i])]_vars

\* addNote has returned true for a record that had a note: the record has
\* that note and then the new one, and the file holds it.
C9_Witness ==
  /\ lastRet.op.kind = "addNote"
  /\ lastRet.val = RBool(TRUE)
  /\ InRange(Collection, lastRet.op.idx)
  /\ Len(NotesOf(At(Collection, lastRet.op.idx))) = 2
  /\ NotesOf(At(Collection, lastRet.op.idx))[1] = FJob0.notes[1]
  /\ NotesOf(At(Collection, lastRet.op.idx))[2].note = lastRet.op.note
  /\ file = JsonStringify(Collection)

(***************************************************************************)
(* C10.  Initialization never raises to its caller.  A load ends with the  *)
(* store initialized and the call going on, nothing thrown; from a missing *)
(* file the collection is empty and nothing is logged; from a file that    *)
(* is not JSON or cannot be read it is empty and the error is logged; and  *)
(* so it is when the write-back of a legacy object file fails.  A call of  *)
(* initialize returns normally.                                            *)
(***************************************************************************)
Loading(p) == pc[p] = "readFile" \/ loc[p].inLoad

LoadEnds(p) == Loading(p) /\ ~(pc'[p] = "readFile" \/ loc'[p].inLoad)

C10_InitializeNeverRaises ==
  [][\A p \in Procs :
       /\ LoadEnds(p)
          => /\ initialized'
             /\ pc'[p] = "body"
             /\ lastRet' = NoRet
       /\ (LoadEnds(p) /\ pc[p] = "readFile" /\ file.kind = "missing")
          => arrays'[jobs'] = <<>> /\ logged' = {}
       /\ (LoadEnds(p) /\ pc[p] = "readFile" /\ file.kind \in {"garbage", "unreadable"})
          => arrays'[jobs'] = <<>> /\ "load" \in logged'
       /\ InBody(p, "initialize")
          => /\ initialized'
             /\ lastRet' = [op |-> op[p], val |-> RVoid, appended |-> FALSE]]_vars

\* initialize has returned normally although the write-back of the legacy
\* object file failed: the file is still the object, the store initialized.
C10_Witness ==
  /\ lastRet.op.kind = "initialize"
  /\ lastRet.val = RVoid
  /\ initialized
  /\ file.kind = "object"
  /\ Collection = <<>>

(***************************************************************************)
(* C11.  A file that holds a JSON object is converted, when it is loaded,  *)
(* to the list of its members' values in enumeration order (integer keys   *)
(* ascending, then the other keys in the order of the text); the write of  *)
(* that list is issued at once, as a JSON array of exactly those records;  *)
(* and, the write done, the file is that array and the collection is that  *)
(* list, which this.jobs refers to from then on.  A file that holds a JSON *)
(* array becomes the collection as it is, in order, and loading it writes  *)
(* nothing.                                                                *)
(***************************************************************************)
\* Member i comes before member j in the enumeration of the object.
EnumeratedBefore(mems, i, j) ==
  \/ mems[i].isIndex /\ mems[j].isIndex /\ mems[i].key < mems[j].key
  \/ mems[i].isIndex /\ ~mems[j].isIndex
  \/ ~mems[i].isIndex /\ ~mems[j].isIndex /\ i < j

\* The list holds the values of the members in enumeration order.
InEnumerationOrder(mems, list) ==
  /\ Len(list) = Len(mems)
  /\ \E perm \in [1..Len(mems) -> 1..Len(mems)] :
       /\ \A r, s \in 1..Len(mems) : r < s => EnumeratedBefore(mems, perm[r], perm[s])
       /\ \A r \in 1..Len(mems) : list[r] = mems[perm[r]].value

C11_LoadConvertsObjectKeepsArray ==
  [][/\ initialized => jobs' = jobs
     /\ \A p \in Procs :
          /\ (pc[p] = "readFile" /\ pc'[p] # "readFile" /\ file.kind = "object")
             => /\ pc'[p] = "mkdir"
                /\ loc'[p].inLoad
                /\ InEnumerationOrder(file.members, arrays'[loc'[p].jobList])
                /\ file' = file
          /\ (loc[p].inLoad /\ pc[p] = "mkdir" /\ pc'[p] = "writeFile")
             => /\ loc'[p].content.kind = "array"
                /\ loc'[p].content.items = arrays[loc[p].jobList]
          /\ (LoadEnds(p) /\ loc[p].inLoad /\ "save" \notin logged')
             => /\ file.kind = "object"
                /\ InEnumerationOrder(file.members, arrays'[jobs'])
                /\ file' = ArrayDoc(arrays'[jobs'])
                /\ jobs' = loc[p].jobList
                /\ initialized'
          /\ (pc[p] = "readFile" /\ pc'[p] # "readFile" /\ file.kind = "array")
             => /\ arrays'[jobs'] = file.items
                /\ file' = file
                /\ initialized'
                /\ pc'[p] = "body"
                /\ NoWriteIssued]_vars

\* The load of the object file {"1": FJob0, "0": FJob1} has ended: the file
\* is the array of FJob1 and FJob0, in that order, and so is the collection.
C11_Witness ==
  /\ initialized
  /\ \E p \in Procs : pc[p] = "body"
  /\ Collection = <<FJob1, FJob0>>
  /\ file = ArrayDoc(<<FJob1, FJob0>>)

(***************************************************************************)
(* C12.  Initialization is idempotent.  The store, once initialized, stays *)
(* initialized; a call made when it is initialized goes on to its own work *)
(* without reading the file, writing it or touching the collection,        *)
(* whatever the file holds by then; and a call of initialize made then     *)
(* returns having changed nothing.                                         *)
(***************************************************************************)
C12_InitializeIdempotent ==
  [][/\ initialized => initialized'
     /\ \A p \in Procs :
          /\ (initialized /\ pc[p] = "idle" /\ pc'[p] # "idle")
             => /\ pc'[p] = "body"
                /\ file' = file
                /\ arrays' = arrays
                /\ jobs' = jobs
          /\ (initialized /\ pc'[p] = "readFile") => pc[p] = "readFile"
          /\ (initialized /\ InBody(p, "initialize"))
             => /\ lastRet' = [op |-> op[p], val |-> RVoid, appended |-> FALSE]
                /\ pc'[p] = "idle"
                /\ file' = file
                /\ arrays' = arrays
                /\ jobs' = jobs
                /\ NoWriteIssued]_vars

\* initialize has returned in a store that was loaded from the file [FJob0]
\* and whose file has since become unparseable: the collection is kept.
C12_Witness ==
  /\ lastRet.op.kind = "initialize"
  /\ lastRet.val = RVoid
  /\ initialized
  /\ file = Garbage
  /\ Len(Collection) >= 1
  /\ Identity(Collection[1]) = Identity(FJob0)

(***************************************************************************)
(* C13.  The collection is assigned from the file once.  When calls reach  *)
(* initialize together, a load that ends after the store is initialized    *)
(* leaves this.jobs as it is, and no step drops a record from the          *)
(* collection of an initialized store.                                     *)
(***************************************************************************)
C13_CollectionAssignedOnce ==
  [][initialized
       => /\ \A p \in Procs : LoadEnds(p) => jobs' = jobs
          /\ Len(arrays'[jobs']) >= Len(Collection)]_vars

(***************************************************************************)
(* C14.  Round trip.  When a mutating call returns from its save without   *)
(* raising, calls being issued one at a time, the file holds the whole     *)
(* collection: a fresh store that loads the file gets as many records, in  *)
(* the same order, each with the fields of the record in memory that have  *)
(* a value, and with the same values; a field whose value is undefined in  *)
(* memory is the one thing absent from the reloaded record.  A call that   *)
(* returns without saving leaves collection and file as they were.         *)
(***************************************************************************)
\* What a fresh store holds after loading the file.
Reload(f) == loadDataTry(f).jobList

\* The fields of a record in memory that have a value.
DefinedFields(job) ==
  {f \in DOMAIN job : ~(f = "additionalInfo" /\ job[f] = Undefined)}

EqualButUndefined(mem, disk) ==
  /\ DOMAIN disk = DefinedFields(mem)
  /\ \A f \in DOMAIN disk : disk[f] = mem[f]

\* Caller p's call returns, in this step, from its save without raising.
SavedAndReturned(p) ==
  /\ pc[p] \in {"mkdir", "writeFile"}
  /\ ~loc[p].inLoad
  /\ pc'[p] = "idle"
  /\ lastRet'.val # RThrow

ReturnsUnsaved(p) ==
  /\ pc[p] = "body"
  /\ op[p].kind \in MutatingKinds
  /\ pc'[p] = "idle"

C14_RoundTrip ==
  [][\A p \in Procs :
       /\ SavedAndReturned(p)
          => /\ file'.kind = "array"
             /\ Len(Reload(file')) = Len(arrays'[jobs'])
             /\ \A i \in 1..Len(arrays'[jobs']) :
                  EqualButUndefined(arrays'[jobs'][i], Reload(file')[i])
       /\ ReturnsUnsaved(p)
          => file' = file /\ arrays' = arrays /\ jobs' = jobs]_vars

\* C14 as stated: the reloaded collection equals the collection in memory,
\* every record with the same fields.
C14_AsStated ==
  [][\A p \in Procs :
       /\ SavedAndReturned(p) => Reload(file') = arrays'[jobs']
       /\ ReturnsUnsaved(p)
          => file' = file /\ arrays' = arrays /\ jobs' = jobs]_vars

\* addJob has returned after saving a second record, posted without
\* additionalInfo: the file reloads to two records, the second without that
\* field and otherwise the record in memory.
C14_Witness ==
  /\ lastRet.op.kind = "addJob"
  /\ lastRet.appended
  /\ lastRet.val = RNum(1)
  /\ Len(Collection) = 2
  /\ Collection[2].additionalInfo = Undefined
  /\ Len(Reload(file)) = 2
  /\ Reload(file)[1] = Collection[1]
  /\ "additionalInfo" \notin DOMAIN Reload(file)[2]
  /\ EqualButUndefined(Collection[2], Reload(file)[2])

(***************************************************************************)
(* C15.  When the save of a mutating call fails (fs.mkdir or fs.writeFile  *)
(* rejects), the call rejects: the failure reaches the caller as the       *)
(* failure of that call.  The collection is not rolled back: it holds the  *)
(* record addJob appended, the status updateJobStatus set, the note        *)
(* addNote appended.  The file does not hold the collection.               *)
(***************************************************************************)
\* The save of caller p's call fails in this step.
SaveFails(p) ==
  /\ pc[p] \in {"mkdir", "writeFile"}
  /\ ~loc[p].inLoad
  /\ "save" \in logged'

\* The collection holds what the call of caller p set out to change.
HoldsMutationOf(jobList, p) ==
  CASE op[p].kind = "addJob" ->
         /\ loc[p].appended
         /\ InRange(jobList, loc[p].index)
         /\ Identity(At(jobList, loc[p].index)) = Identity(op[p].cand)
         /\ At(jobList, loc[p].index).status = "found"
    [] op[p].kind = "updateJobStatus" ->
         /\ InRange(jobList, op[p].idx)
         /\ At(jobList, op[p].idx).status = op[p].status
         /\ At(jobList, op[p].idx).lastUpdated = now - 1
    [] op[p].kind = "addNote" ->
         /\ InRange(jobList, op[p].idx)
         /\ LET notes == NotesOf(At(jobList, op[p].idx))
            IN  /\ Len(notes) >= 1
                /\ notes[Len(notes)] = [timestamp |-> now - 1, note |-> op[p].note]
    [] OTHER -> FALSE

C15_FailedSaveRaisesKeepsMemory ==
  [][\A p \in Procs :
       SaveFails(p)
       => /\ lastRet' = [op |-> op[p], val |-> RThrow, appended |-> loc[p].appended]
          /\ pc'[p] = "idle"
          /\ arrays' = arrays
          /\ jobs' = jobs
          /\ HoldsMutationOf(arrays'[jobs'], p)
          /\ file' \in {file, Garbage}
          /\ file' # JsonStringify(arrays'[jobs'])
          /\ file'.kind = "array" => ~HoldsMutationOf(file'.items, p)]_vars

\* updateJobStatus has rejected after its write failed: the record in memory
\* has the new status, the record in the file still has the old one.
C15_Witness ==
  /\ lastRet.op.kind = "updateJobStatus"
  /\ lastRet.val = RThrow
  /\ "save" \in logged
  /\ InRange(Collection, lastRet.op.idx)
  /\ At(Collection, lastRet.op.idx).status = lastRet.op.status
  /\ file.kind = "array"
  /\ Len(file.items) = Len(Collection)
  /\ At(file.items, lastRet.op.idx).status # lastRet.op.status

(***************************************************************************)
(* C16.  Concurrent mutating calls can lose an update.  The text a call    *)
(* writes is the serialisation of the collection made when its fs.mkdir    *)
(* resolved, and the write, when it settles, replaces the whole file with  *)
(* that text and the call returns normally: what other calls changed after *)
(* that serialisation and wrote before this write settled is no longer in  *)
(* the file.  The witness is such a run: two calls appended a record each, *)
(* both were seen to succeed, and the file lacks one of the records.       *)
(***************************************************************************)
C16_WriteStoresSnapshot ==
  [][\A p \in Procs :
       /\ (pc[p] = "mkdir" /\ pc'[p] = "writeFile")
          => loc'[p].content = JsonStringify(arrays[loc[p].jobList])
       /\ (pc[p] = "writeFile" /\ ~loc[p].inLoad /\ pc'[p] = "idle" /\ lastRet'.val # RThrow)
          => /\ file' = loc[p].content
             /\ lastRet'.op = op[p]
             /\ loc[p].content # JsonStringify(arrays[jobs])
                  => file' # JsonStringify(arrays'[jobs'])]_vars

\* Both addJob calls have appended and been seen to succeed, no call is in
\* flight, the collection was loaded once and has two records more than it
\* was loaded with, and the file holds one record fewer than the collection.
C16_Witness ==
  /\ Quiescent
  /\ lastRet = NoRet
  /\ now = 3
  /\ resolved = 2
  /\ jobs = 2
  /\ Len(Collection) >= 2
  /\ Collection[Len(Collection)].lastUpdated = 2
  /\ Collection[Len(Collection) - 1].lastUpdated = 1
  /\ file.kind = "array"
  /\ file.items = SubSeq(JsonStringify(Collection).items, 1, Len(Collection) - 1)

(***************************************************************************)
(* C17.  The queries are read-only.  The step in which checkDuplicate,     *)
(* getJob, getJobsByStatus, getJobsByCompany, searchJobs, getStatistics or *)
(* getAllJobs returns, in whatever state it is called (store not yet       *)
(* initialized, a call of another caller waiting for its write), leaves    *)
(* the collection, every record and the file as they were, begins no file  *)
(* read and no write and does not initialize the store.                    *)
(***************************************************************************)
C17_QueriesReadOnly ==
  [][(lastRet = NoRet /\ lastRet'.op.kind \in QueryKinds)
       => UNCHANGED <<file, arrays, jobs, initialized, pc, op, loc, now>>]_vars

\* getJobsByStatus has returned records while the write of another caller's
\* updateJobStatus is in flight.
C17_Witness ==
  /\ lastRet.op.kind = "getJobsByStatus"
  /\ Len(lastRet.val.list) >= 1
  /\ \E q \in Procs : pc[q] = "writeFile" /\ op[q].kind = "updateJobStatus"
  /\ file # JsonStringify(Collection)

(***************************************************************************)
(* C18.  What a caller does with the result of a query changes nothing in  *)
(* the store: in the step in which the caller of a query uses its result,  *)
(* every record of every array of the store stays as it was.               *)
(***************************************************************************)
C18_QueryResultsDetached ==
  [][(lastRet.op.kind \in QueryKinds /\ lastRet' = NoRet) => arrays' = arrays]_vars

(***************************************************************************)
(* C19.  getStatistics returns totalJobs equal to the length of the        *)
(* collection; byStatus, byCompany and byJobBoard have one key for each    *)
(* status, company and job board that occurs (unknown for a record without *)
(* one) and map it to the number of records that have it; appliedCount is  *)
(* the number of records whose status is applied.                          *)
(***************************************************************************)
StatusKey(job) == IF "status" \in DOMAIN job THEN job.status ELSE "unknown"

BoardKey(job) == IF "jobBoard" \in DOMAIN job THEN job.jobBoard ELSE "unknown"

C19_StatisticsExact ==
  lastRet.op.kind = "getStatistics"
  => LET st == lastRet.val.stats
         all == 1..Len(Collection)
     IN  /\ st.totalJobs = Len(Collection)
         /\ DOMAIN st.byStatus = {StatusKey(Collection[i]) : i \in all}
         /\ \A k \in DOMAIN st.byStatus :
              st.byStatus[k] = Count(Cardinality({i \in all : StatusKey(Collection[i]) = k}))
         /\ DOMAIN st.byCompany = {Collection[i].company : i \in all}
         /\ \A k \in DOMAIN st.byCompany :
              st.byCompany[k] = Count(Cardinality({i \in all : Collection[i].company = k}))
         /\ DOMAIN st.byJobBoard = {BoardKey(Collection[i]) : i \in all}
         /\ \A k \in DOMAIN st.byJobBoard :
              st.byJobBoard[k] = Count(Cardinality({i \in all : BoardKey(Collection[i]) = k}))
         /\ st.appliedCount = Cardinality({i \in all : Collection[i].status = "applied"})

(***************************************************************************)
(* C20.  getJob(i) returns the record at index i when 0 <= i < length and  *)
(* null for any other integer; getJobsByStatus(s) returns the records      *)
(* whose status is s, all of them and no other, in the order of the        *)
(* collection; getAllJobs returns every record, in that order.  None of    *)
(* them raises.                                                            *)
(***************************************************************************)
\* The record a reference denotes.
Deref(ref) == arrays[ref.arr][ref.idx + 1]

C20_QueriesReturnRecords ==
  /\ lastRet.op.kind = "getJob"
     => IF 0 <= lastRet.op.idx /\ lastRet.op.idx < Len(Collection)
        THEN /\ lastRet.val.kind = "job"
             /\ lastRet.val.ref = [arr |-> jobs, idx |-> lastRet.op.idx]
             /\ Deref(lastRet.val.ref) = At(Collection, lastRet.op.idx)
        ELSE lastRet.val.kind = "null"
  /\ lastRet.op.kind = "getJobsByStatus"
     => /\ lastRet.val.kind = "list"
        /\ LET list == lastRet.val.list
           IN  /\ \A k \in 1..Len(list) :
                    /\ list[k].arr = jobs
                    /\ InRange(Collection, list[k].idx)
                    /\ Deref(list[k]).status = lastRet.op.status
               /\ \A k \in 1..Len(list) - 1 : list[k].idx < list[k + 1].idx
               /\ \A i \in 1..Len(Collection) :
                    Collection[i].status = lastRet.op.status
                      => \E k \in 1..Len(list) : list[k].idx = i - 1
  /\ lastRet.op.kind = "getAllJobs"
     => /\ lastRet.val.kind = "list"
        /\ Len(lastRet.val.list) = Len(Collection)
        /\ \A k \in 1..Len(Collection) :
             /\ lastRet.val.list[k].arr = jobs
             /\ Deref(lastRet.val.list[k]) = Collection[k]

\* getJobsByStatus(applied) has returned the first and the third record of a
\* collection of three, the first having been set to applied by a call.
C20_Witness ==
  /\ lastRet.op.kind = "getJobsByStatus"
  /\ lastRet.op.status = "applied"
  /\ Len(Collection) = 3
  /\ Len(lastRet.val.list) = 2
  /\ lastRet.val.list[1].idx = 0
  /\ lastRet.val.list[2].idx = 2
  /\ Collection[2].status = "found"

(***************************************************************************)
(* C21.  In every reachable state of a store that started from an empty or *)
(* well-formed file, the status of every record of the collection and of   *)
(* the durable file is one of FOUND, REVIEWED, APPLIED, whatever addJob,   *)
(* updateJobStatus, addNote and PATCH /api/jobs requests were executed.    *)
(* PATCH hands the status of its body to updateJobStatus, which stores it  *)
(* without looking at it.                                                  *)
(***************************************************************************)
StatusesIn(jobList) == {jobList[i].status : i \in 1..Len(jobList)}

C21_StatusInEnum ==
  /\ StatusesIn(Collection) \subseteq Statuses
  /\ file.kind = "array" => StatusesIn(file.items) \subseteq Statuses

(***************************************************************************)
(* C22.  When the external action of POST /api/jobs/apply succeeded, the   *)
(* proof is merged into the record's additionalInfo with the keys it had   *)
(* kept, nothing else touches additionalInfo, and when the status update   *)
(* that follows returns without raising (the route answers success: true)  *)
(* the record at the index has status APPLIED and the proof both in the    *)
(* collection and in the durable file.  When the external action failed,   *)
(* the request leaves the collection and the file as they were.  As        *)
(* stated, without the condition on the status update's save, the durable  *)
(* file is required to hold the record also when that save failed.         *)
(***************************************************************************)
InfoKeys(job) ==
  IF "additionalInfo" \in DOMAIN job /\ job.additionalInfo # Undefined
  THEN {job.additionalInfo[k] : k \in 1..Len(job.additionalInfo)}
  ELSE {}

AppliedWithProof(jobList, i) ==
  /\ InRange(jobList, i)
  /\ At(jobList, i).status = "applied"
  /\ "applicationProof" \in InfoKeys(At(jobList, i))

\* Caller p's request is in the status update that follows a successful
\* external action.
ApplyUpdate(p) == op[p].kind = "updateJobStatus" /\ op[p].note = ApplyNote

\* The external action of caller p's request succeeds in this step.
ExternalSucceeds(p) == pc[p] = "applyToJob" /\ pc'[p] # "idle"

\* The external action of caller p's request fails in this step.
ExternalFails(p) == pc[p] = "applyToJob" /\ pc'[p] = "idle"

ProofMerged(p) ==
  LET i == op[p].idx
  IN  /\ jobs' = jobs
      /\ InRange(Collection, i)
      /\ Len(arrays'[jobs']) = Len(Collection)
      /\ InfoKeys(At(arrays'[jobs'], i)) = InfoKeys(At(Collection, i)) \cup {"applicationProof"}
      /\ \A j \in 0..(Len(Collection) - 1) :
           j # i => At(arrays'[jobs'], j) = At(Collection, j)

InfoKept ==
  /\ Len(arrays'[jobs']) >= Len(Collection)
  /\ \A j \in 0..(Len(Collection) - 1) :
       InfoKeys(At(arrays'[jobs'], j)) = InfoKeys(At(Collection, j))

RecordedEverywhere(p) ==
  /\ AppliedWithProof(arrays'[jobs'], op[p].idx)
  /\ file'.kind = "array"
  /\ AppliedWithProof(file'.items, op[p].idx)

C22_ApplyRecordsOutcome ==
  [][/\ (initialized /\ \A p \in Procs : ~ExternalSucceeds(p)) => InfoKept
     /\ \A p \in Procs :
          /\ ExternalSucceeds(p) => ProofMerged(p)
          /\ (ApplyUpdate(p) /\ pc'[p] = "idle" /\ lastRet'.val # RThrow)
                => RecordedEverywhere(p)
          /\ ExternalFails(p) => (arrays' = arrays /\ jobs' = jobs /\ file' = file)]_vars

C22_AsStated ==
  [][\A p \in Procs :
       (ApplyUpdate(p) /\ pc'[p] = "idle") => RecordedEverywhere(p)]_vars

\* A request whose external action succeeded on a record that held a key in
\* its additionalInfo has been answered success: true.
C22_Witness ==
  /\ lastRet.op.note = ApplyNote
  /\ lastRet.op.kind = "updateJobStatus"
  /\ lastRet.val = RBool(TRUE)
  /\ AppliedWithProof(Collection, lastRet.op.idx)
  /\ file.kind = "array"
  /\ AppliedWithProof(file.items, lastRet.op.idx)
  /\ InfoKeys(At(Collection, lastRet.op.idx)) = {"k", "applicationProof"}

(***************************************************************************)
(* C23.  Once the store is initialized the file is not read again: no call *)
(* waits for fs.readFile, the collection stays the array it is and changes *)
(* only in the body of a mutating call, which keeps the records it holds   *)
(* and adds at most its own candidate, whatever another program has        *)
(* written to the file meanwhile; and the write of the next mutation that  *)
(* succeeds replaces the file's content with the collection.               *)
(***************************************************************************)
Mutates(p) == pc[p] = "body" /\ op[p].kind \in MutatingKinds /\ pc'[p] # pc[p]

WriteLands(p) == pc[p] = "writeFile" /\ ~loc[p].inLoad /\ pc'[p] = "idle" /\ lastRet'.val # RThrow

C23_FileNotReadAfterInit ==
  [][initialized =>
       /\ \A p \in Procs : pc[p] # "readFile" /\ pc'[p] # "readFile"
       /\ initialized'
       /\ jobs' = jobs
       /\ (\A p \in Procs : ~Mutates(p)) => arrays'[jobs'] = Collection
       /\ \A p \in Procs : Mutates(p) =>
            \A i \in 1..Len(arrays'[jobs']) :
              IF i <= Len(Collection)
              THEN Identity(arrays'[jobs'][i]) = Identity(Collection[i])
              ELSE op[p].kind = "addJob" /\ Identity(arrays'[jobs'][i]) = Identity(op[p].cand)
       /\ \A p \in Procs : WriteLands(p) => file' = JsonStringify(arrays'[jobs'])]_vars

\* The store is initialized, a mutation's write is in flight, and the file
\* holds what another program wrote after the write's text was made.
C23_Witness ==
  /\ initialized
  /\ file = ArrayDoc(<<FJob7>>)
  /\ \E p \in Procs : pc[p] = "writeFile" /\ ~loc[p].inLoad /\ loc[p].content # file
  /\ Len(Collection) = 3

(***************************************************************************)
(* C24.  A query that is the first operation invoked on a fresh store      *)
(* triggers the load of the backing file, and its result reflects the      *)
(* records the file holds: after the step in which the query returns the   *)
(* store is initialized or a read of the file is in flight, and getAllJobs *)
(* has returned as many records as the file holds.                         *)
(***************************************************************************)
FirstQueryReturns ==
  /\ ~initialized
  /\ Quiescent
  /\ lastRet = NoRet
  /\ lastRet'.op.kind \in QueryKinds

C24_FirstQueryLoads ==
  [][FirstQueryReturns =>
       /\ initialized' \/ \E p \in Procs : pc'[p] = "readFile"
       /\ lastRet'.op.kind = "getAllJobs"
            => Len(lastRet'.val.list) = Len(Reload(file))]_vars

(***************************************************************************)
(* C25.  Starting from an empty or duplicate-free file, in every reachable *)
(* state and under any interleaving of concurrent addJob, updateJobStatus  *)
(* and addNote calls, neither the collection nor the durable file holds    *)
(* two records with the same company and jobTitle ignoring case, or two    *)
(* records with non-empty jobUrls that are equal after trimming and        *)
(* lower-casing.                                                           *)
(***************************************************************************)
SameCompanyAndTitle(a, b) ==
  /\ toLowerCase(a.company) = toLowerCase(b.company)
  /\ toLowerCase(a.jobTitle) = toLowerCase(b.jobTitle)

SameUrl(a, b) ==
  /\ "jobUrl" \in DOMAIN a /\ "jobUrl" \in DOMAIN b
  /\ Len(a.jobUrl) > 0 /\ Len(b.jobUrl) > 0
  /\ toLowerCase(trim(a.jobUrl)) = toLowerCase(trim(b.jobUrl))

NoDuplicates(jobList) ==
  \A i, j \in 1..Len(jobList) :
    i < j => /\ ~SameCompanyAndTitle(jobList[i], jobList[j])
             /\ ~SameUrl(jobList[i], jobList[j])

C25_NoDuplicateRecords ==
  /\ NoDuplicates(Collection)
  /\ file.kind = "array" => NoDuplicates(file.items)

\* While one caller's addJob awaits its write, the addJob of another caller
\* with a candidate of another company and an equal URL has returned the
\* index of the first one's record without appending.
C25_Witness ==
  /\ lastRet.op.kind = "addJob"
  /\ lastRet.val.kind = "number"
  /\ ~lastRet.appended
  /\ \E q \in Procs :
       /\ pc[q] \in {"mkdir", "writeFile"}
       /\ op[q].kind = "addJob"
       /\ loc[q].appended
       /\ op[q].cand.company # lastRet.op.cand.company
       /\ SameUrl(op[q].cand, lastRet.op.cand)
       /\ lastRet.val.num = loc[q].index

(***************************************************************************)
(* C26.  Whenever addJob has returned an index without raising, having     *)
(* appended a record or matched one, and no other call is in flight, the   *)
(* durable file holds at that index a record with the candidate's company  *)
(* and jobTitle.  Stated for the returns whose index holds such a record   *)
(* in the collection, and with company and jobTitle compared ignoring      *)
(* case, so that a match by URL alone is left aside.                       *)
(***************************************************************************)
C26_ReturnedIndexIsDurable ==
  (/\ lastRet.op.kind = "addJob"
   /\ lastRet.val.kind = "number"
   /\ Quiescent
   /\ InRange(Collection, lastRet.val.num)
   /\ SameCompanyAndTitle(At(Collection, lastRet.val.num), lastRet.op.cand))
  => /\ file.kind = "array"
     /\ InRange(file.items, lastRet.val.num)
     /\ SameCompanyAndTitle(At(file.items, lastRet.val.num), lastRet.op.cand)

(***************************************************************************)
(* C27.  Under any interleaving of concurrently issued mutating calls,     *)
(* once every issued call has completed and every write succeeded, the     *)
(* durable file's content equals the collection.  Every mutation made has  *)
(* then been seen to succeed by its caller.  Stated for the runs in which  *)
(* the file was loaded once, so that only the order of the writes is in    *)
(* play.                                                                   *)
(***************************************************************************)
AllCompletedAllWritten ==
  /\ Quiescent
  /\ lastRet = NoRet
  /\ now > 1
  /\ resolved = now - 1

C27_LastWriteCarriesAll ==
  (AllCompletedAllWritten /\ Len(arrays) = 2) => file = JsonStringify(Collection)

(***************************************************************************)
(* C28.  For every interleaving of concurrent POST /api/jobs/apply         *)
(* requests that name the same jobIndex, at most one of them passes the    *)
(* already-applied check and invokes applyToJob: no two requests for the   *)
(* same index are past the check at the same time, be it loading the       *)
(* applicant's data, awaiting applyToJob or recording its success.         *)
(***************************************************************************)
PastAppliedCheck(p) ==
  \/ op[p].kind = "apply" /\ pc[p] \in {"prepare", "applyToJob"}
  \/ ApplyUpdate(p)

C28_AtMostOneApplication ==
  \A p, q \in Procs :
    (p # q /\ PastAppliedCheck(p) /\ PastAppliedCheck(q)) => op[p].idx # op[q].idx

(***************************************************************************)
(* C29.  When the file holds a readable legacy object and the write-back   *)
(* of the migration fails, the store still holds the converted records     *)
(* after initialization: the step in which the migration's fs.mkdir or     *)
(* fs.writeFile fails leaves the store initialized with the converted list *)
(* as its collection.                                                      *)
(***************************************************************************)
MigrationWriteFails(p) ==
  /\ loc[p].inLoad
  /\ pc[p] \in {"mkdir", "writeFile"}
  /\ "save" \in logged'

C29_FailedMigrationKeepsRecords ==
  [][\A p \in Procs :
       MigrationWriteFails(p)
         => /\ initialized'
            /\ arrays'[jobs'] = arrays[loc[p].jobList]]_vars

(***************************************************************************)
(* C30.  A load that finds the file malformed or unreadable falls back to  *)
(* an empty collection: it logs, initializes the store, leaves the file    *)
(* as it is and lets the call go on.  The write of a mutation that lands   *)
(* afterwards replaces the file's content with the collection, which holds *)
(* only records created since the fallback, and the mutation returns       *)
(* normally; the content the file had is then held nowhere.                *)
(***************************************************************************)
FallsBack(p) == pc[p] = "readFile" /\ "load" \in logged'

CreatedByStore(jobList) == \A i \in 1..Len(jobList) : jobList[i].lastUpdated >= 1

C30_FallbackThenOverwrite ==
  [][\A p \in Procs :
       /\ pc[p] = "readFile" => (FallsBack(p) /\ pc'[p] = "body")
       /\ FallsBack(p) => /\ initialized'
                          /\ arrays'[jobs'] = <<>>
                          /\ file' = file
       /\ WriteLands(p) => /\ file' = JsonStringify(arrays'[jobs'])
                           /\ CreatedByStore(file'.items)
                           /\ lastRet'.val.kind \in {"number", "boolean"}]_vars

\* The first mutation after the fallback has been saved: the file, which was
\* malformed or unreadable, holds the one record the collection holds.
C30_Witness ==
  /\ lastRet.op.kind = "addJob"
  /\ lastRet.appended
  /\ lastRet.val = RNum(0)
  /\ now = 2
  /\ Len(Collection) = 1
  /\ file = JsonStringify(Collection)

====
